---------------------------- MODULE Spec2Model ----------------------------
(***************************************************************************)
(* A model of Memoizer[T].Memoize (src/unnamed/part_000).                  *)
(*                                                                         *)
(* Each caller is a goroutine that makes one Memoize call; a sequence of   *)
(* calls is a sequence of callers, one starting after another returned.    *)
(* The two collaborators Memoize calls are modelled by what they do at the *)
(* call sites: patrickmn/go-cache (Get, Set, DeleteExpired) and            *)
(* golang.org/x/sync/singleflight (Group.Do, doCall, panicError.Unwrap).   *)
(*                                                                         *)
(* Time is counted in units of 100ms.  Values of T are the integers        *)
(* 0..MaxVal; Nil is the nil interface value, a value of T only when T is  *)
(* an interface type ("any").  An error value is identified by the caller  *)
(* whose producer created it (errors.New allocates a new error per run).   *)
(***************************************************************************)
EXTENDS Integers, Sequences, FiniteSets

\* ------------------------------------------------------------ bounds
NumCallers == 3
NumKeys == 2
MaxTime == 3
MaxVal == 1
\* The callers inside Memoize at once, where the clock runs (SpecExp).
MaxActive == 2
\* The options of one call (SpecOpt).
MaxOpts == 3
\* The Memoizer instances (SpecTwo).
NumMemoizers == 2

Procs == 1..NumCallers
Keys == 1..NumKeys

\* ------------------------------------------------- program constants
\* go-cache: cache.NoExpiration and cache.DefaultExpiration.
NoExpiration == -1
DefaultExpiration == 0
\* The expiration NewMemoizerWithCacheExpiration / Options is given here.
SomeExpiration == 1
\* The clean interval NewMemoizerWithOptions is given here.
SomeCleanInterval == 1
\* The durations of the test's override: even results 100ms, odd 200ms.
EvenTTL == 1
OddTTL == 2

\* The nil interface value, and the nil error.
Nil == -1
NoErr == 0

Types == {"int", "any"}
\* var zero T
Zero(t) == IF t = "any" THEN Nil ELSE 0
\* The values a producer of type func() (T, error) can return.
TValues(t) == (0..MaxVal) \cup (IF t = "any" THEN {Nil} ELSE {})

\* ------------------------------------------------------ panic values
NoPanic == [tag |-> "none", isErr |-> FALSE, id |-> 0]
\* What a producer run by caller p panics with: an error value
\* (customError) or a non-error value (a string).
Payload(isErr, p) == [tag |-> "value", isErr |-> isErr, id |-> p]
\* singleflight: newPanicError(r), the *panicError wrapping r.
PanicError(x) == [tag |-> "panicError", isErr |-> x.isErr, id |-> x.id]
\* panic(nil): a nil payload (reported as *runtime.PanicNilError from Go 1.21).
NilPanic == [tag |-> "nilpanic", isErr |-> FALSE, id |-> 0]
\* panic(fmt.Errorf("cache value type mismatch"))
MismatchPanic == [tag |-> "mismatch", isErr |-> TRUE, id |-> 0]
\* The runtime's *TypeAssertionError of a failed result.(T).
TypeAssertionPanic == [tag |-> "typeassert", isErr |-> TRUE, id |-> 0]

\* singleflight: (*panicError).Unwrap: the value when it is an error, else nil.
Unwrap(e) == IF e.isErr THEN Payload(TRUE, e.id) ELSE NilPanic

\* The deferred recover of Memoize: an unwrappable payload is replaced by
\* what it unwraps to, any other payload is re-panicked as it is.
Recover(r) == IF r.tag = "panicError" THEN Unwrap(r) ELSE r

\* ---------------------------------------------------------- outcomes
\* What a producer run does: return (val, nil), return (val, err) or panic.
NoOutcome == [kind |-> "none", val |-> 0, err |-> NoErr, p |-> NoPanic]
Ok(v) == [kind |-> "ok", val |-> v, err |-> NoErr, p |-> NoPanic]
Err(v, e) == [kind |-> "err", val |-> v, err |-> e, p |-> NoPanic]
Panic(x) == [kind |-> "panic", val |-> 0, err |-> NoErr, p |-> x]

ProducerOutcomes(t, p) ==
    {Ok(v) : v \in TValues(t)}
        \cup {Err(v, p) : v \in TValues(t)}
        \cup {Panic(Payload(b, p)) : b \in BOOLEAN}

\* --------------------------------------------------------- expiration
Callbacks == {"parity", "never", "default"}
\* An ExpirationOption's Callback applied to a result.
Callback(cb, v) ==
    CASE cb = "parity" -> IF v % 2 = 0 THEN EvenTTL ELSE OddTTL
      [] cb = "never" -> NoExpiration
      [] OTHER -> DefaultExpiration

\* The option lists a call is given.
OptionLists == {<<>>} \cup {<<cb>> : cb \in Callbacks}
                 \cup {<<"parity", "never">>, <<"never", "parity">>}

\* Every list of up to MaxOpts expiration options.
AllOptionLists == UNION {[1..n -> Callbacks] : n \in 0..MaxOpts}

\* A faulty loop that stops at the first option.
ResolveFromMutant(exp, opts, v) ==
    IF opts = <<>> THEN exp ELSE Callback(Head(opts), v)
\* expiration := cache.DefaultExpiration; for each option: expiration =
\* opt.Callback(res).
RECURSIVE ResolveFrom(_, _, _)
ResolveFrom(exp, opts, v) ==
    IF opts = <<>> THEN exp
    ELSE ResolveFrom(Callback(Head(opts), v), Tail(opts), v)

ResolveExpiration(opts, v) == ResolveFrom(DefaultExpiration, opts, v)

VARIABLES
    typ,                \* the type parameter T of the Memoizer
    expiration,         \* the expiration the constructor passes to cache.New
    defaultExpiration,  \* the cache's defaultExpiration field
    cleanupInterval,    \* cache.New's cleanupInterval
    now,                \* the clock
    items,              \* the cache's items: key -> item
    m,                  \* singleFlightGroup.m: key -> the call in flight
    c,                  \* the call object created by each executing caller
    pc,                 \* where each caller is in Memoize
    key,                \* each caller's key argument
    options,            \* the options the executing caller's closure reads
    fnOut,              \* what each caller's producer did, once it has run
    joined,             \* the caller whose call object this caller got from Do
    ret,                \* what Memoize gave each caller
    lookupAt,           \* the time of each caller's cache lookup
    setAt,              \* the time of each caller's cache.Set
    saw,                \* the caller whose item the lookup found stored
    returned,           \* the callers (same key) that had returned by then
    invoked             \* the callback invocations of each call: <<callback, argument>>

vars == <<typ, expiration, defaultExpiration, cleanupInterval, now, items, m, c, pc, key,
          options, fnOut, joined, ret, lookupAt, setAt, saw, returned, invoked>>

config == <<typ, expiration, defaultExpiration, cleanupInterval>>
history == <<lookupAt, saw, returned, invoked>>

\* ---------------------------------------------------------- the cache
NoItem == [Object |-> 0, Expiration |-> 0, by |-> 0]
\* An Item; by records the caller that stored it.
Item(x, e, p) == [Object |-> x, Expiration |-> e, by |-> p]

\* go-cache Item.Expired at time t.
Expired(item, t) == item.Expiration > 0 /\ t > item.Expiration

\* Faulty lookups: one that ignores expiry, one that never finds an entry.
FoundMutant(k) == items[k].by # 0
NeverFoundMutant(k) == FALSE
\* m.cache.Get(key): found unless absent or expired.
Found(k) == items[k].by # 0 /\ ~Expired(items[k], now)

\* A faulty Set that applies no default expiration.
ExpiryAtMutant(t, d) == IF d > 0 THEN t + d ELSE 0
\* m.cache.Set(key, res, expiration) at time t: the absolute expiry of the
\* item, 0 for one that never expires.
ExpiryAt(t, d) ==
    LET dd == IF d = DefaultExpiration THEN defaultExpiration ELSE d
    IN  IF dd > 0 THEN t + dd ELSE 0

\* ------------------------------------------------------- singleflight
NoCall == [val |-> Nil, err |-> NoErr, p |-> NoPanic, done |-> FALSE]

\* ------------------------------------------------------ constructors
\* NewMemoizer, NewMemoizerWithCacheExpiration (of a duration, and of the
\* zero duration), NewMemoizerWithOptions.
Constructors ==
    {<<NoExpiration, 0>>, <<SomeExpiration, 0>>, <<0, 0>>,
     <<SomeExpiration, SomeCleanInterval>>, <<NoExpiration, SomeCleanInterval>>}

\* cache.New(de, ci): a defaultExpiration of 0 is replaced by -1.
NewCache(de) == IF de = 0 THEN NoExpiration ELSE de

\* No caller has called yet.
Idle ==
    /\ now = 0
    /\ c = [p \in Procs |-> NoCall]
    /\ pc = [p \in Procs |-> "idle"]
    /\ key = [p \in Procs |-> 0]
    /\ fnOut = [p \in Procs |-> NoOutcome]
    /\ joined = [p \in Procs |-> 0]
    /\ ret = [p \in Procs |-> NoOutcome]
    /\ lookupAt = [p \in Procs |-> 0]
    /\ setAt = [p \in Procs |-> 0]
    /\ saw = [p \in Procs |-> 0]
    /\ returned = [p \in Procs |-> {}]
    /\ invoked = [p \in Procs |-> <<>>]

\* cache.New and the zero singleflight.Group: no item, no call in flight.
Rest0 ==
    /\ Idle
    /\ items = [k \in Keys |-> NoItem]
    /\ m = [k \in Keys |-> 0]

Rest == Rest0 /\ options = [p \in Procs |-> <<>>]

\* NewMemoizer[int](), as in the tests.
Init ==
    /\ typ = "int"
    /\ expiration = NoExpiration
    /\ defaultExpiration = NewCache(expiration)
    /\ cleanupInterval = 0
    /\ Rest

\* ------------------------------------------------------------ Memoize
\* value, ok := m.cache.Get(key); on a hit value.(T) and return.
HitOutcome(k) ==
    IF items[k].Object \in TValues(typ) /\ items[k].Object # Nil
    THEN Ok(items[k].Object)
    ELSE Panic(MismatchPanic)

\* Callers and keys are interchangeable: callers are numbered in the order
\* in which they call, keys in the order of their first use.
InOrder(p, k) ==
    /\ \A q \in Procs : q < p => pc[q] # "idle"
    /\ \A j \in Keys : j < k => \E q \in Procs : pc[q] # "idle" /\ key[q] = j

Lookup(p, k) ==
    /\ pc[p] = "idle"
    /\ InOrder(p, k)
    /\ key' = [key EXCEPT ![p] = k]
    /\ lookupAt' = [lookupAt EXCEPT ![p] = now]
    /\ returned' = [returned EXCEPT ![p] = {q \in Procs : pc[q] = "done" /\ key[q] = k}]
    /\ saw' = [saw EXCEPT ![p] = items[k].by]
    /\ IF Found(k)
       THEN /\ ret' = [ret EXCEPT ![p] = HitOutcome(k)]
            /\ pc' = [pc EXCEPT ![p] = "done"]
       ELSE /\ pc' = [pc EXCEPT ![p] = "do"]
            /\ ret' = ret
    /\ UNCHANGED <<config, now, items, m, c, options, fnOut, joined, setAt, invoked>>

\* A faulty group that never sees the call in flight.
InFlightMutant(k) == FALSE
\* singleflight Group.Do under g.mu: join the call in flight for the key,
\* or create one and go on to run fn.
InFlight(k) == m[k] # 0

\* A faulty group that admits a caller only when no call of any key is in
\* flight.
DoEnterMutant(p) ==
    /\ pc[p] = "do"
    /\ \A k \in Keys : m[k] = 0
    /\ joined' = [joined EXCEPT ![p] = p]
    /\ m' = [m EXCEPT ![key[p]] = p]
    /\ pc' = [pc EXCEPT ![p] = "fn"]
    /\ UNCHANGED <<config, now, items, c, key, options, fnOut, ret, setAt, history>>

DoEnter(p) ==
    /\ pc[p] = "do"
    /\ IF InFlight(key[p])
       THEN /\ joined' = [joined EXCEPT ![p] = m[key[p]]]
            /\ pc' = [pc EXCEPT ![p] = "wait"]
            /\ m' = m
       ELSE /\ joined' = [joined EXCEPT ![p] = p]
            /\ m' = [m EXCEPT ![key[p]] = p]
            /\ pc' = [pc EXCEPT ![p] = "fn"]
    /\ UNCHANGED <<config, now, items, c, key, options, fnOut, ret, setAt, history>>

\* A faulty condition that caches a result returned with an error.
ShouldCacheMutant(o) == o.kind # "panic"
\* if err == nil: the result is cached.
ShouldCache(o) == o.kind = "ok"

\* res, err := fn() inside the closure doCall runs; a panic is recovered
\* by doCall into c.err = newPanicError(r).
RunFn(p) ==
    /\ pc[p] = "fn"
    /\ \E o \in ProducerOutcomes(typ, p) :
          /\ fnOut' = [fnOut EXCEPT ![p] = o]
          /\ CASE ShouldCache(o) ->
                    /\ pc' = [pc EXCEPT ![p] = "set"]
                    /\ c' = c
               [] o.kind = "err" ->
                    /\ pc' = [pc EXCEPT ![p] = "fin"]
                    /\ c' = [c EXCEPT ![p] = [val |-> o.val, err |-> o.err,
                                              p |-> NoPanic, done |-> FALSE]]
               [] OTHER ->
                    /\ pc' = [pc EXCEPT ![p] = "fin"]
                    /\ c' = [c EXCEPT ![p] = [val |-> Nil, err |-> NoErr,
                                              p |-> PanicError(o.p), done |-> FALSE]]
    /\ UNCHANGED <<config, now, items, m, key, options, joined, ret, setAt, history>>

\* A faulty closure that returns the result without storing it.
StoredItemMutant(p, opts) == items[key[p]]
\* if err == nil: resolve the expiration from the options and
\* m.cache.Set(key, res, expiration); then return res, err to doCall.
StoredItem(p, opts) ==
    Item(fnOut[p].val, ExpiryAt(now, ResolveExpiration(opts, fnOut[p].val)), p)

\* The calls opt.Callback(res) the loop over the options makes, in order.
Invocations(opts, v) == [i \in 1..Len(opts) |-> <<opts[i], v>>]

\* A faulty Do that runs the closure of the latest caller of the call.
ClosureOptionsMutant(p, opts) ==
    LET callers == {q \in Procs : joined[q] = p}
    IN  options[CHOOSE q \in callers : \A r \in callers : r <= q]
\* The options the closure run by the executing caller p reads, opts
\* being the options of p's call: the closure is the one p passed to Do.
ClosureOptions(p, opts) == opts

\* The call of caller p was given one of the option lists.
CacheSet(p, lists) ==
    /\ pc[p] = "set"
    /\ \E opts \in lists :
          /\ options' = [options EXCEPT ![p] = opts]
          /\ invoked' = [invoked EXCEPT ![p] =
                            Invocations(ClosureOptions(p, opts), fnOut[p].val)]
          /\ items' = [items EXCEPT ![key[p]] = StoredItem(p, ClosureOptions(p, opts))]
    /\ c' = [c EXCEPT ![p] = [val |-> fnOut[p].val, err |-> NoErr,
                              p |-> NoPanic, done |-> FALSE]]
    /\ setAt' = [setAt EXCEPT ![p] = now]
    /\ pc' = [pc EXCEPT ![p] = "fin"]
    /\ UNCHANGED <<config, now, m, key, fnOut, joined, ret, lookupAt, saw, returned>>

\* A faulty doCall that keeps the completed call in the group.
KeepCallMutant(p) == m
\* doCall's deferred function under g.mu: c.wg.Done() and
\* delete(g.m, key) when g.m[key] == c.
Discard(p) == IF m[key[p]] = p THEN [m EXCEPT ![key[p]] = 0] ELSE m

\* A faulty doCall that discards the call without c.wg.Done().
FinishMutant(p) ==
    /\ pc[p] = "fin"
    /\ m' = Discard(p)
    /\ pc' = [pc EXCEPT ![p] = "ret"]
    /\ UNCHANGED <<config, now, items, c, key, options, fnOut, joined, ret, setAt, history>>

Finish(p) ==
    /\ pc[p] = "fin"
    /\ c' = [c EXCEPT ![p].done = TRUE]
    /\ m' = Discard(p)
    /\ pc' = [pc EXCEPT ![p] = "ret"]
    /\ UNCHANGED <<config, now, items, key, options, fnOut, joined, ret, setAt, history>>

\* What Memoize gives its caller from the call object Do returned:
\* Do panics with c.err when it is a *panicError, and the deferred recover
\* re-panics; otherwise lines 92-97.
Translate(call) ==
    IF call.p # NoPanic THEN Panic(Recover(call.p))
    ELSE IF call.err # NoErr /\ call.val = Nil THEN Err(Zero(typ), call.err)
    ELSE IF call.val = Nil THEN Panic(Recover(TypeAssertionPanic))
    ELSE IF call.err # NoErr THEN Err(call.val, call.err)
    ELSE Ok(call.val)

\* A faulty Do whose joined callers do not read the call they joined.
NoWaitMutant(p) == IF joined[p] = p THEN c[p] ELSE NoCall
\* The call object a caller reads after Do: its own, or the one it joined.
CallOf(p) == c[joined[p]]

\* The executing caller after doCall, or a joined caller after c.wg.Wait().
Return(p) ==
    /\ \/ pc[p] = "ret"
       \/ pc[p] = "wait" /\ c[joined[p]].done
    /\ ret' = [ret EXCEPT ![p] = Translate(CallOf(p))]
    /\ pc' = [pc EXCEPT ![p] = "done"]
    /\ UNCHANGED <<config, now, items, m, c, key, options, fnOut, joined, setAt, history>>

\* ------------------------------------------------------- environment
\* The clock advances.  Before anything is stored no lookup can tell one
\* time from another, so the clock is left at 0 until then.
Tick ==
    /\ now < MaxTime
    /\ \E k \in Keys : items[k].by # 0
    /\ now' = now + 1
    /\ UNCHANGED <<config, items, m, c, pc, key, options, fnOut, joined, ret, setAt, history>>

\* go-cache's janitor: DeleteExpired every cleanupInterval.
DeleteExpired ==
    /\ cleanupInterval > 0
    /\ \E k \in Keys : items[k].by # 0 /\ Expired(items[k], now)
    /\ items' = [k \in Keys |->
                    IF items[k].by # 0 /\ Expired(items[k], now)
                    THEN NoItem ELSE items[k]]
    /\ UNCHANGED <<config, now, m, c, pc, key, options, fnOut, joined, ret, setAt, history>>

\* The callers inside Memoize.
Active == {p \in Procs : pc[p] \notin {"idle", "done"}}

\* A step of caller p inside Memoize, in a call without options.
StepOf(p) ==
    \/ DoEnter(p)
    \/ RunFn(p)
    \/ CacheSet(p, {<<>>})
    \/ Finish(p)
    \/ Return(p)

\* NewMemoizer() and calls without options, as in TestMemoizer: nothing
\* expires, so no lookup can tell one time from another and the clock and
\* the janitor are left out.
Next ==
    \/ \E p \in Procs, k \in Keys : Lookup(p, k)
    \/ \E p \in Procs : DoEnter(p)
    \/ \E p \in Procs : RunFn(p)
    \/ \E p \in Procs : CacheSet(p, {<<>>})
    \/ \E p \in Procs : Finish(p)
    \/ \E p \in Procs : Return(p)

Spec == Init /\ [][Next]_vars

\* A step of caller p inside Memoize other than its producer's.
OwnStep(p) ==
    \/ DoEnter(p)
    \/ CacheSet(p, {<<>>})
    \/ Finish(p)
    \/ Return(p)

\* Fair scheduling: a goroutine that can go on inside Memoize eventually
\* does; whether a producer terminates is left to the producer.
Fairness == \A p \in Procs : WF_vars(OwnStep(p))

SpecFair == Init /\ [][Next]_vars /\ Fairness

\* Every constructor, calls with and without expiration options, the
\* clock and the janitor, for the callers of one key.
InitExp ==
    /\ typ = "int"
    /\ \E cfg \in Constructors :
          /\ expiration = cfg[1]
          /\ defaultExpiration = NewCache(cfg[1])
          /\ cleanupInterval = cfg[2]
    /\ Rest

NextExp ==
    \/ \E p \in Procs : Cardinality(Active) < MaxActive /\ Lookup(p, 1)
    \/ \E p \in Procs : DoEnter(p)
    \/ \E p \in Procs : RunFn(p)
    \/ \E p \in Procs : CacheSet(p, OptionLists)
    \/ \E p \in Procs : Finish(p)
    \/ \E p \in Procs : Return(p)
    \/ Tick
    \/ DeleteExpired

SpecExp == InitExp /\ [][NextExp]_vars

\* The calls of one key made one after another, each with the same list
\* of expiration options, any list, as in TestMemoizerWithCustomExpiration.
InitOpt ==
    /\ typ = "int"
    /\ \E cfg \in Constructors :
          /\ expiration = cfg[1]
          /\ defaultExpiration = NewCache(cfg[1])
          /\ cleanupInterval = cfg[2]
    /\ Rest0
    /\ \E opts \in AllOptionLists :
          options = [p \in Procs |-> opts]

NextOpt ==
    \/ \E p \in Procs : Active = {} /\ Lookup(p, 1)
    \/ \E p \in Procs : DoEnter(p)
    \/ \E p \in Procs : RunFn(p)
    \/ \E p \in Procs : CacheSet(p, {options[p]})
    \/ \E p \in Procs : Finish(p)
    \/ \E p \in Procs : Return(p)
    \/ Tick
    \/ DeleteExpired

SpecOpt == InitOpt /\ [][NextOpt]_vars

\* Concurrent calls of one key, each with its own expiration options: none
\* or one override.  No time passes.
CallOptions == {<<>>} \cup {<<cb>> : cb \in Callbacks}

InitJoin ==
    /\ typ = "int"
    /\ \E cfg \in {x \in Constructors : x[2] = 0} :
          /\ expiration = cfg[1]
          /\ defaultExpiration = NewCache(cfg[1])
          /\ cleanupInterval = cfg[2]
    /\ Rest0
    /\ options \in [Procs -> CallOptions]

NextJoin ==
    \/ \E p \in Procs : Lookup(p, 1)
    \/ \E p \in Procs : DoEnter(p)
    \/ \E p \in Procs : RunFn(p)
    \/ \E p \in Procs : CacheSet(p, {options[p]})
    \/ \E p \in Procs : Finish(p)
    \/ \E p \in Procs : Return(p)

SpecJoin == InitJoin /\ [][NextJoin]_vars

\* NewMemoizer[T]() for each kind of T: a concrete type, an interface type.
InitTyped ==
    /\ typ \in Types
    /\ expiration = NoExpiration
    /\ defaultExpiration = NewCache(expiration)
    /\ cleanupInterval = 0
    /\ Rest

SpecTyped == InitTyped /\ [][Next]_vars

\* Several Memoizers made by NewMemoizer[int]().  Each has its own cache
\* and its own singleflight.Group, so an item or a call in flight is
\* addressed by the Memoizer and the key: items and m are indexed by these
\* cells, and the key variable holds the cell a caller addresses.
Memoizers == 1..NumMemoizers
Cells == 1..(NumKeys * NumMemoizers)
\* Faulty Memoizers that keep their cache and group in shared variables.
CellOfMutant(i, k) == (k - 1) * NumMemoizers + 1
\* The fields m.cache and m.singleFlightGroup of Memoizer i, at key k.
CellOf(i, k) == (k - 1) * NumMemoizers + i
\* The Memoizer caller p calls: successive callers take the Memoizers in
\* turn.
RecvOf(p) == ((p - 1) % NumMemoizers) + 1

InitTwo ==
    /\ typ = "int"
    /\ expiration = NoExpiration
    /\ defaultExpiration = NewCache(expiration)
    /\ cleanupInterval = 0
    /\ Idle
    /\ items = [a \in Cells |-> NoItem]
    /\ m = [a \in Cells |-> 0]
    /\ options = [p \in Procs |-> <<>>]

NextTwo ==
    \/ \E p \in Procs, k \in Keys : Lookup(p, CellOf(RecvOf(p), k))
    \/ \E p \in Procs : DoEnter(p)
    \/ \E p \in Procs : RunFn(p)
    \/ \E p \in Procs : CacheSet(p, {<<>>})
    \/ \E p \in Procs : Finish(p)
    \/ \E p \in Procs : Return(p)

SpecTwo == InitTwo /\ [][NextTwo]_vars

\* --------------------------------------------------------- properties
\* Whether a caller's producer has been invoked.
Ran(p) == fnOut[p] # NoOutcome
Done(p) == pc[p] = "done"
\* A caller that got its result from the cache lookup.
Hit(p) == Done(p) /\ joined[p] = 0
\* The callers whose Do holds a call for key k: running the producer,
\* caching its result, or about to discard the call.
Executing(k) == {p \in Procs : pc[p] \in {"fn", "set", "fin"} /\ key[p] = k}
Producing(k) == {p \in Procs : pc[p] = "fn" /\ key[p] = k}

\* C1: for every key at most one producer execution is in progress, and
\* at most one call is in flight, at any instant.
C1_OneProducerPerKey ==
    \A k \in Keys :
        /\ Cardinality(Producing(k)) <= 1
        /\ Cardinality(Executing(k)) <= 1
        /\ \A p \in Executing(k) : m[k] = p

\* A producer for a key is running while another caller of the key has
\* joined it and waits.
C1_Witness ==
    \E p, q \in Procs :
        /\ p # q /\ key[p] = key[q]
        /\ pc[p] = "fn" /\ pc[q] = "wait" /\ joined[q] = p

\* The N callers all called with key 1, all have returned, and every
\* producer that ran returned (v, nil).
C2_Scenario(v) ==
    /\ \A p \in Procs : Done(p) /\ key[p] = 1
    /\ \A p \in Procs : Ran(p) => fnOut[p] = Ok(v)

Src(q) == IF joined[q] = 0 THEN saw[q] ELSE joined[q]
\* The duration caller s passed to Set, and the expiry of the item it stored.
DurationOf(s) == ResolveExpiration(options[s], fnOut[s].val)
ExpirationOf(s) == ExpiryAt(setAt[s], DurationOf(s))
\* Whether the item caller s stored has expired at time t.
ExpiredAt(s, t) == ExpirationOf(s) > 0 /\ t > ExpirationOf(s)
\* Caller p is the first caller of the key to call after caller q returned.
NextAfter(q, p) ==
    /\ q \in returned[p]
    /\ \A r \in Procs : (r < p /\ pc[r] # "idle" /\ key[r] = key[p]) => q \notin returned[r]
\* Caller p called after caller q had returned with (v, nil), at a time
\* when the entry of q's value had not expired.
C3_Later(q, p) ==
    /\ Done(p) /\ q \in returned[p]
    /\ ret[q].kind = "ok"
    /\ ~ExpiredAt(Src(q), lookupAt[p])

C4_SameOutcome ==
    \A p, q \in Procs :
        (Done(p) /\ Done(q) /\ joined[p] # 0 /\ joined[p] = joined[q]) =>
            /\ ret[p] = ret[q]
            /\ ret[p].kind = fnOut[joined[p]].kind

\* Three callers of one call have returned after its producer panicked.
C4_Witness ==
    \E p \in Procs :
        /\ fnOut[p].kind = "panic"
        /\ \A q \in Procs : Done(q) /\ joined[q] = p

\* C5 as stated: the first call after a Memoize that returned an error
\* invokes its producer, returns its value when it succeeds, and the call
\* after that is a hit.
C5_NextInvokes ==
    \A p, q \in Procs :
        (ret[q].kind = "err" /\ NextAfter(q, p) /\ Done(p)) =>
            /\ Ran(p)
            /\ fnOut[p].kind = "ok" =>
                  /\ ret[p] = Ok(fnOut[p].val)
                  /\ \A r \in Procs : (NextAfter(p, r) /\ Done(r)) => Hit(r)

\* Caller p did not run its producer because another caller's did: it hit
\* a value that caller's producer returned, or joined that caller's
\* execution, one that no caller had returned from when p called.
ServedByOther(p) ==
    \/ /\ Hit(p) /\ saw[p] # 0
       /\ ret[p] = Ok(fnOut[saw[p]].val)
    \/ /\ joined[p] \notin {0, p}
       /\ \A r \in returned[p] : joined[r] # joined[p]

\* C5 as amended: the first call after a Memoize that returned an error
\* never returns that error; it invokes its producer unless it hits a
\* value, or joins an execution, of another concurrent caller; when its
\* producer runs and succeeds it returns the value and every call after
\* it is a hit.
C5_NoReplay ==
    \A p, q \in Procs :
        (ret[q].kind = "err" /\ NextAfter(q, p) /\ Done(p)) =>
            /\ ret[p].err # ret[q].err
            /\ ~Ran(p) => ServedByOther(p)
            /\ fnOut[p].kind = "ok" =>
                  /\ ret[p] = Ok(fnOut[p].val)
                  /\ items[key[p]].by # 0
                  /\ \A r \in Procs : (p \in returned[r] /\ Done(r)) => Hit(r)

\* An error, then a call that runs its producer with success, then a hit.
C5_Witness ==
    \E q, p, r \in Procs :
        /\ ret[q].kind = "err" /\ NextAfter(q, p) /\ Done(p)
        /\ fnOut[p].kind = "ok"
        /\ NextAfter(p, r) /\ Hit(r) /\ saw[r] = p

\* A step of a caller whose producer returned an error or panicked.
FailedStep(p) == fnOut'[p].kind \in {"err", "panic"} /\ pc'[p] # pc[p]
\* Each cache entry holds a value its key's producer returned with a nil
\* error.
EntriesFromSuccess ==
    \A k \in Keys :
        items[k].by # 0 =>
            key[items[k].by] = k /\ fnOut[items[k].by] = Ok(items[k].Object)

\* C6: each cache entry holds a value that a producer run for its key
\* returned with a nil error, and no step of a caller whose producer
\* returned an error or panicked changes the cache.
C6_OnlySuccessCached ==
    /\ []EntriesFromSuccess
    /\ [][\A p \in Procs : FailedStep(p) => items' = items]_vars

\* A caller whose producer failed has returned while its key has an entry.
C6_Witness ==
    \E p \in Procs :
        /\ Done(p) /\ fnOut[p].kind \in {"err", "panic"}
        /\ items[key[p]].by # 0

\* C7: when the producer panics with payload X, an error value or not,
\* the executing caller and every joined caller panic with X itself.
C7_SamePayload ==
    \A p \in Procs :
        (Done(p) /\ joined[p] # 0 /\ fnOut[joined[p]].kind = "panic") =>
            ret[p] = Panic(fnOut[joined[p]].p)

\* Once a caller's producer has completed and doCall has finished, its
\* call is no longer the one in flight for the key.
Discarded == \A p \in Procs : pc[p] \in {"ret", "done"} => m[key[p]] # p

\* C8 as stated: a completed call is discarded, the first call after a
\* Memoize that panicked invokes its producer, and a later producer that
\* succeeds is returned and cached.
C8_NextInvokes ==
    /\ Discarded
    /\ \A p, q \in Procs :
          (ret[q].kind = "panic" /\ NextAfter(q, p) /\ Done(p)) =>
              /\ Ran(p)
              /\ fnOut[p].kind = "ok" =>
                    ret[p] = Ok(fnOut[p].val) /\ items[key[p]].by # 0

\* C8 as amended: a completed call is discarded; a call that starts after
\* a caller of that execution returned never gets its outcome from the
\* coordinator: it invokes its producer unless it hits a value, or joins
\* an execution, of another concurrent caller; a later producer that
\* succeeds is returned and cached.
C8_NoStaleCall ==
    /\ Discarded
    /\ \A p, q \in Procs :
          (Done(q) /\ joined[q] # 0 /\ q \in returned[p] /\ Done(p)) =>
              /\ joined[p] # joined[q]
              /\ ~Ran(p) => ServedByOther(p)
              /\ fnOut[p].kind = "ok" =>
                    ret[p] = Ok(fnOut[p].val) /\ items[key[p]].by # 0

\* A panic, then the next call runs its producer and panics, then a call
\* whose producer succeeds.
C8_Witness ==
    \E q, p, r \in Procs :
        /\ ret[q].kind = "panic" /\ NextAfter(q, p) /\ Done(p)
        /\ fnOut[p].kind = "panic"
        /\ NextAfter(p, r) /\ Done(r) /\ fnOut[r].kind = "ok"

\* C9: when the producer returns an error e, with whatever value, the
\* executing caller and every joined caller get (zero value of T, e).
C9_ZeroWithError ==
    \A p \in Procs :
        (Done(p) /\ joined[p] # 0 /\ fnOut[joined[p]].kind = "err") =>
            ret[p] = Err(Zero(typ), fnOut[joined[p]].err)

\* Caller q stored its result with an expiration override.
Override(q) == fnOut[q].kind = "ok" /\ options[q] # <<>> /\ pc[q] \in {"fin", "ret", "done"}
\* The time from q's store to p's lookup.
Elapsed(q, p) == lookupAt[p] - setAt[q]

\* C10 as stated: a result v cached with an override d is valid for d(v)
\* (for ever when d(v) is "never"): a call before d(v) has elapsed returns
\* v without invoking its producer, a call after d(v) has elapsed does not
\* get v from the cache and goes on as for a cold key.
C10_ValidForDuration ==
    \A p, q \in Procs :
        (Override(q) /\ q \in returned[p] /\ Done(p)) =>
            LET d == DurationOf(q)
            IN  /\ (d < 0 \/ Elapsed(q, p) < d) =>
                      ret[p] = Ok(fnOut[q].val) /\ ~Ran(p)
                /\ (d >= 0 /\ Elapsed(q, p) > d) => joined[p] # 0

\* The duration the store applies to q's entry: d(v), or the constructor's
\* default expiration when d(v) is 0.
EffectiveDuration(q) ==
    IF DurationOf(q) = DefaultExpiration THEN defaultExpiration ELSE DurationOf(q)

\* C10 as amended: the entry is valid for d(v), for the constructor's
\* default expiration when d(v) is 0, and for ever when that duration is
\* not positive; this of a call that finds q's entry still the one stored
\* for the key.
C10_ValidWhileStored ==
    \A p, q \in Procs :
        (Override(q) /\ saw[p] = q /\ Done(p)) =>
            LET d == EffectiveDuration(q)
            IN  /\ (d <= 0 \/ Elapsed(q, p) < d) =>
                      ret[p] = Ok(fnOut[q].val) /\ ~Ran(p)
                /\ (d > 0 /\ Elapsed(q, p) > d) => joined[p] # 0

\* An entry stored with a positive override was hit before its duration
\* had elapsed, and found expired by a caller that ran its producer after.
C10_Witness ==
    \E q, p, r \in Procs :
        /\ Override(q) /\ DurationOf(q) > 0
        /\ saw[p] = q /\ Hit(p) /\ Elapsed(q, p) < DurationOf(q)
        /\ saw[r] = q /\ Done(r) /\ Ran(r) /\ Elapsed(q, r) > DurationOf(q)

\* Caller q cached its result with no expiration override.
NoOverride(q) == fnOut[q].kind = "ok" /\ options[q] = <<>> /\ pc[q] \in {"fin", "ret", "done"}

\* C11 as stated: an entry cached without an override never expires for
\* NewMemoizer (no expiration) and expires after the configured duration
\* otherwise, whatever overrides other calls were given: a call that finds
\* the entry stored hits it before that duration has elapsed and misses
\* after.
C11_ConfiguredDefault ==
    \A p, q \in Procs :
        (NoOverride(q) /\ saw[p] = q /\ Done(p)) =>
            /\ (expiration < 0 \/ Elapsed(q, p) < expiration) =>
                  ret[p] = Ok(fnOut[q].val) /\ ~Ran(p)
            /\ (expiration >= 0 /\ Elapsed(q, p) > expiration) => joined[p] # 0

\* C11 as amended: the same for a positive configured duration; with a
\* configured duration of zero, as with no expiration, the entry never
\* expires.
C11_CacheDefault ==
    \A p, q \in Procs :
        (NoOverride(q) /\ saw[p] = q /\ Done(p)) =>
            /\ (expiration <= 0 \/ Elapsed(q, p) < expiration) =>
                  ret[p] = Ok(fnOut[q].val) /\ ~Ran(p)
            /\ (expiration > 0 /\ Elapsed(q, p) > expiration) => joined[p] # 0

\* One call cached with an override, another cached without one under a
\* configured duration, and a later call found that entry expired.
C11_Witness ==
    \E o, q, p \in Procs :
        /\ Override(o) /\ setAt[o] <= setAt[q]
        /\ NoOverride(q) /\ expiration > 0
        /\ saw[p] = q /\ Done(p) /\ Ran(p) /\ Elapsed(q, p) > expiration

\* The last option of the call of caller p.
LastOption(p) == options[p][Len(options[p])]

\* C12: the expiry stored with an entry cached by a call with overrides is
\* the one Set computes from the duration the last override returns for
\* the result, whatever overrides precede it.
C12_LastOverrideWins ==
    \A p \in Procs :
        (Override(p) /\ items[key[p]].by = p) =>
            items[key[p]].Expiration =
                ExpiryAt(setAt[p], Callback(LastOption(p), fnOut[p].val))

\* An entry cached by a call with MaxOpts overrides, the first and the
\* last of different durations.
C12_Witness ==
    \E p \in Procs :
        /\ Override(p) /\ items[key[p]].by = p
        /\ Len(options[p]) = MaxOpts
        /\ Callback(LastOption(p), fnOut[p].val) > 0
        /\ Callback(options[p][1], fnOut[p].val) # Callback(LastOption(p), fnOut[p].val)

\* Caller p waits in Do for the call it joined.
Waiting(p) == pc[p] = "wait" /\ ~c[joined[p]].done

\* C13: a caller inside Memoize can always take its next step, whatever
\* the callers of other keys are doing, unless it waits for the call it
\* joined, which is a call of its own key whose execution has not
\* completed.
C13_BlockedByOwnKeyOnly ==
    \A p \in Procs :
        pc[p] \notin {"idle", "done"} =>
            \/ ENABLED StepOf(p)
            \/ /\ Waiting(p)
               /\ key[joined[p]] = key[p]
               /\ joined[p] \in Executing(key[p])

\* A caller ran its producer and returned while the producer of another
\* key, whose caller had called before it, was still running and had a
\* waiter.
C13_Witness ==
    \E q, w, p \in Procs :
        /\ pc[q] = "fn" /\ Waiting(w) /\ joined[w] = q
        /\ q < p /\ key[p] # key[q] /\ Done(p) /\ Ran(p)

\* C14: under fair scheduling, once the producer of an executing caller
\* has terminated (by success, error or panic), the executing caller and
\* every caller that joined its call eventually leave Memoize.
C14_CallersLeave ==
    \A p, q \in Procs : (Ran(p) /\ joined[q] = p) ~> Done(q)

\* The executing caller and a caller that had joined it have both left
\* Memoize after the producer returned an error.
C14_Witness ==
    \E p, q \in Procs :
        /\ p # q /\ joined[q] = p /\ fnOut[p].kind = "err"
        /\ Done(p) /\ Done(q)

\* The cells of the Memoizers other than the one caller p calls.
OtherCells(p) == {CellOf(i, k) : i \in Memoizers \ {RecvOf(p)}, k \in Keys}
\* A step of caller p.
StepBy(p) == pc'[p] # pc[p]

\* No caller is served by a caller of another Memoizer: a hit is on an
\* item stored through the caller's own Memoizer, and a caller joins only
\* a call made through its own Memoizer.
ServedByOwnMemoizer ==
    \A p \in Procs :
        /\ Hit(p) => saw[p] # 0 /\ RecvOf(saw[p]) = RecvOf(p)
        /\ joined[p] # 0 => RecvOf(joined[p]) = RecvOf(p)

\* C15: a Memoize call on one Memoizer leaves the cache and the calls in
\* flight of every other Memoizer unchanged, is never a hit on a value
\* cached in another Memoizer, and never joins or waits for a call in
\* flight in another Memoizer.
C15_NoSharedState ==
    /\ []ServedByOwnMemoizer
    /\ [][\A p \in Procs : StepBy(p) =>
            \A a \in OtherCells(p) : items'[a] = items[a] /\ m'[a] = m[a]]_vars

\* The key argument of caller p.
KeyOf(p) == ((key[p] - RecvOf(p)) \div NumMemoizers) + 1

\* A caller ran its producer for a key and returned while another
\* Memoizer held a value cached for the same key and was running a
\* producer for it.
C15_Witness ==
    \E q, r, p \in Procs :
        /\ RecvOf(p) # RecvOf(q) /\ RecvOf(r) = RecvOf(q)
        /\ KeyOf(p) = KeyOf(q) /\ KeyOf(r) = KeyOf(q)
        /\ Done(q) /\ items[key[q]].by = q
        /\ pc[r] = "fn"
        /\ Done(p) /\ Ran(p)

\* C16: the expiration callbacks of a call are invoked only by a caller
\* whose own producer has returned with a nil error, with that result as
\* argument; none is invoked in a call whose producer returned an error
\* or panicked, in a call that hit the cache, or in a call that joined
\* another.
C16_CallbackOnSuccessOnly ==
    \A p \in Procs :
        /\ invoked[p] # <<>> =>
              /\ fnOut[p].kind = "ok" /\ joined[p] = p
              /\ \A i \in 1..Len(invoked[p]) : invoked[p][i][2] = fnOut[p].val
        /\ (fnOut[p].kind \in {"err", "panic"} \/ Hit(p)) => invoked[p] = <<>>

\* Of three calls given the same overrides, one had its producer fail,
\* one invoked the callbacks with its result, one hit the cache.
C16_Witness ==
    \E f, q, p \in Procs :
        /\ options[f] # <<>> /\ Done(f) /\ fnOut[f].kind \in {"err", "panic"}
        /\ Done(q) /\ Len(invoked[q]) = MaxOpts
        /\ options[p] # <<>> /\ Hit(p) /\ saw[p] = q

\* Caller p has stored the result of its producer.
Stored(p) == fnOut[p].kind = "ok" /\ pc[p] \in {"fin", "ret", "done"}
\* The call of the executing caller p has been discarded, or one of its
\* callers has received its outcome.
Published(p) ==
    \/ pc[p] \in {"ret", "done"}
    \/ \E q \in Procs : joined[q] = p /\ Done(q)
\* An entry stored for key k has expired.
SomeExpired(k) == \E s \in Procs : Stored(s) /\ key[s] = k /\ ExpiredAt(s, now)

\* C17: when a producer has succeeded and its call has been discarded or a
\* caller has received its value, a lookup of the key finds an entry,
\* unless an entry stored for the key has expired.
C17_StoredBeforePublished ==
    \A p \in Procs :
        (fnOut[p].kind = "ok" /\ Published(p)) =>
            Found(key[p]) \/ SomeExpired(key[p])

\* The executing caller and a caller that joined it have both received
\* the value, some time after it was stored in an entry that will expire
\* and has not yet.
C17_Witness ==
    \E p, q \in Procs :
        /\ p # q /\ joined[q] = p /\ Done(p) /\ Done(q)
        /\ fnOut[p].kind = "ok" /\ items[key[p]].by = p
        /\ items[key[p]].Expiration > 0 /\ now > setAt[p] /\ Found(key[p])

\* C18: for every value v of T a producer returns with a nil error, the
\* nil value of an interface type included, the executing caller and the
\* callers that joined it return (v, nil), and every call that finds the
\* entry returns (v, nil).
C18_EveryValueReturned ==
    \A p \in Procs :
        /\ (Done(p) /\ joined[p] # 0 /\ fnOut[joined[p]].kind = "ok") =>
              ret[p] = Ok(fnOut[joined[p]].val)
        /\ Hit(p) => ret[p] = Ok(fnOut[saw[p]].val)

\* C19: a caller that joined the call of another never has its producer
\* or its expiration callbacks invoked; the executing caller's callbacks
\* are the ones invoked, and the expiry of the entry it stored is the one
\* resolved from its own options.
C19_ExecutorOptionsOnly ==
    \A p \in Procs :
        /\ joined[p] \notin {0, p} => ~Ran(p) /\ invoked[p] = <<>>
        /\ Stored(p) =>
              /\ invoked[p] = Invocations(options[p], fnOut[p].val)
              /\ items[key[p]].by = p =>
                    items[key[p]].Expiration =
                        ExpiryAt(setAt[p], ResolveExpiration(options[p], fnOut[p].val))

\* Two callers with different overrides joined the call of a caller given
\* the parity override, whose entry is stored, and all have returned.
C19_Witness ==
    \E p, q, r \in Procs :
        /\ q # p /\ r # p /\ joined[q] = p /\ joined[r] = p
        /\ options[p] = <<"parity">> /\ options[q] = <<"never">> /\ options[r] = <<>>
        /\ Done(p) /\ Done(q) /\ Done(r)
        /\ items[key[p]].by = p /\ items[key[p]].Expiration > 0

\* The callers that have written the entry of key k.
Writers(k) == {p \in Procs : Stored(p) /\ key[p] = k}

=============================================================================
